---- MODULE Spec2Model ----
(***************************************************************************)
(* Model of src/lib.rs of rusty-celery.github.io: a crate whose only       *)
(* content is the doc_comment macro import followed by eight doctest!      *)
(* invocations, each naming one markdown page of the book.  The build      *)
(* expands the items of the file in source order; every doctest!           *)
(* invocation includes the named file (include_str!) and attaches it as    *)
(* documentation, and the test run then executes the examples of every     *)
(* attached page, which pass or fail.                                      *)
(***************************************************************************)
EXTENDS Integers, Sequences, FiniteSets, TLC

(***************************************************************************)
(* The source file, item by item (src/lib.rs lines 1-11): LibRs.  The four  *)
(* lists before it are faulty variants of the file, used to show that the  *)
(* properties below depend on what the file says: one registers the old    *)
(* getting-started page in place of quick-start, one keeps it beside the   *)
(* new pages, one leaves the directory with "..", one names a page twice.  *)
(***************************************************************************)
LibRsFirstVariantSlip ==
    << [kind |-> "extern_crate", arg |-> "doc_comment"],
       [kind |-> "doctest", arg |-> "./SUMMARY.md"],
       [kind |-> "doctest", arg |-> "./what-is-celery.md"],
       [kind |-> "doctest", arg |-> "./getting-started/index.md"],
       [kind |-> "doctest", arg |-> "./guide/index.md"],
       [kind |-> "doctest", arg |-> "./guide/defining-tasks.md"],
       [kind |-> "doctest", arg |-> "./best-practices/index.md"],
       [kind |-> "doctest", arg |-> "./coming-from-python/index.md"],
       [kind |-> "doctest", arg |-> "./additional-resources.md"] >>

LibRsKeepsOldPage ==
    << [kind |-> "extern_crate", arg |-> "doc_comment"],
       [kind |-> "doctest", arg |-> "./SUMMARY.md"],
       [kind |-> "doctest", arg |-> "./what-is-celery.md"],
       [kind |-> "doctest", arg |-> "./getting-started/index.md"],
       [kind |-> "doctest", arg |-> "./quick-start.md"],
       [kind |-> "doctest", arg |-> "./guide/index.md"],
       [kind |-> "doctest", arg |-> "./guide/defining-tasks.md"],
       [kind |-> "doctest", arg |-> "./best-practices/index.md"],
       [kind |-> "doctest", arg |-> "./coming-from-python/index.md"],
       [kind |-> "doctest", arg |-> "./additional-resources.md"] >>

LibRsParentDir ==
    << [kind |-> "extern_crate", arg |-> "doc_comment"],
       [kind |-> "doctest", arg |-> "../SUMMARY.md"],
       [kind |-> "doctest", arg |-> "./what-is-celery.md"],
       [kind |-> "doctest", arg |-> "./quick-start.md"],
       [kind |-> "doctest", arg |-> "./guide/index.md"],
       [kind |-> "doctest", arg |-> "./guide/defining-tasks.md"],
       [kind |-> "doctest", arg |-> "./best-practices/index.md"],
       [kind |-> "doctest", arg |-> "./coming-from-python/index.md"],
       [kind |-> "doctest", arg |-> "./additional-resources.md"] >>

LibRsDuplicate ==
    << [kind |-> "extern_crate", arg |-> "doc_comment"],
       [kind |-> "doctest", arg |-> "./SUMMARY.md"],
       [kind |-> "doctest", arg |-> "./what-is-celery.md"],
       [kind |-> "doctest", arg |-> "./quick-start.md"],
       [kind |-> "doctest", arg |-> "./guide/index.md"],
       [kind |-> "doctest", arg |-> "./guide/index.md"],
       [kind |-> "doctest", arg |-> "./best-practices/index.md"],
       [kind |-> "doctest", arg |-> "./coming-from-python/index.md"],
       [kind |-> "doctest", arg |-> "./additional-resources.md"] >>

LibRs ==
    << [kind |-> "extern_crate", arg |-> "doc_comment"],
       [kind |-> "doctest", arg |-> "./SUMMARY.md"],
       [kind |-> "doctest", arg |-> "./what-is-celery.md"],
       [kind |-> "doctest", arg |-> "./quick-start.md"],
       [kind |-> "doctest", arg |-> "./guide/index.md"],
       [kind |-> "doctest", arg |-> "./guide/defining-tasks.md"],
       [kind |-> "doctest", arg |-> "./best-practices/index.md"],
       [kind |-> "doctest", arg |-> "./coming-from-python/index.md"],
       [kind |-> "doctest", arg |-> "./additional-resources.md"] >>

(***************************************************************************)
(* The arguments of the doctest! invocations, in source order.             *)
(***************************************************************************)
RECURSIVE DoctestPaths(_)
DoctestPaths(items) ==
    IF items = << >> THEN << >>
    ELSE IF Head(items).kind = "doctest"
         THEN << Head(items).arg >> \o DoctestPaths(Tail(items))
         ELSE DoctestPaths(Tail(items))

Range(s) == { s[i] : i \in 1..Len(s) }

(***************************************************************************)
(* Paths are strings; they are taken apart character by character.         *)
(***************************************************************************)
Char(p, i) == SubSeq(p, i, i)

StartsWith(p, pre) == Len(p) >= Len(pre) /\ SubSeq(p, 1, Len(pre)) = pre

EndsWith(p, suf) ==
    Len(p) >= Len(suf) /\ SubSeq(p, Len(p) - Len(suf) + 1, Len(p)) = suf

\* The components of p: the maximal runs of characters between "/".
RECURSIVE SplitFrom(_, _, _)
SplitFrom(p, start, i) ==
    IF i > Len(p) THEN << SubSeq(p, start, Len(p)) >>
    ELSE IF Char(p, i) = "/"
         THEN << SubSeq(p, start, i - 1) >> \o SplitFrom(p, i + 1, i + 1)
         ELSE SplitFrom(p, start, i + 1)

Components(p) == SplitFrom(p, 1, 1)

HasRoot(p) == StartsWith(p, "/")

HasParentDir(p) == \E k \in 1..Len(Components(p)) : Components(p)[k] = ".."

(***************************************************************************)
(* State of one build-and-test run of the crate.                           *)
(***************************************************************************)
VARIABLES
    registered,   \* the pages the doctest! invocations name, in source order
    pc,           \* index in LibRs of the next item to expand
    macros,       \* TRUE once #[macro_use] extern crate doc_comment is in scope
    aborted,      \* TRUE once include_str! failed: the crate does not build
    reads,        \* reads[p]: how many times page p was read by include_str!
    result        \* result[i]: outcome of the examples of the i-th page

vars == << registered, pc, macros, aborted, reads, result >>

Outcomes == { "none", "passed", "failed" }

Init ==
    /\ registered = DoctestPaths(LibRs)
    /\ pc = 1
    /\ macros = FALSE
    /\ aborted = FALSE
    /\ reads = [ p \in Range(DoctestPaths(LibRs)) |-> 0 ]
    /\ result = [ i \in 1..Len(DoctestPaths(LibRs)) |-> "none" ]

Expanding == ~aborted /\ pc <= Len(LibRs)

Built == ~aborted /\ pc > Len(LibRs)

\* #[macro_use] extern crate doc_comment;  (lines 1-2)
ExternCrate ==
    /\ Expanding
    /\ LibRs[pc].kind = "extern_crate"
    /\ macros' = TRUE
    /\ pc' = pc + 1
    /\ UNCHANGED << registered, aborted, reads, result >>

\* doctest!(path): the file exists and include_str! reads it  (lines 4-11)
Doctest ==
    /\ Expanding
    /\ LibRs[pc].kind = "doctest"
    /\ macros
    /\ reads' = [ reads EXCEPT ![LibRs[pc].arg] = @ + 1 ]
    /\ pc' = pc + 1
    /\ UNCHANGED << registered, macros, aborted, result >>

\* doctest!(path): the file cannot be read, the build stops  (lines 4-11)
DoctestMissing ==
    /\ Expanding
    /\ LibRs[pc].kind = "doctest"
    /\ macros
    /\ aborted' = TRUE
    /\ UNCHANGED << registered, pc, macros, reads, result >>

\* The examples of the i-th page all pass (a page may have none).
ExamplesPass(i) ==
    /\ Built
    /\ result[i] = "none"
    /\ result' = [ result EXCEPT ![i] = "passed" ]
    /\ UNCHANGED << registered, pc, macros, aborted, reads >>

\* Faulty variant of ExampleFails: the failing page is also unregistered.
ExampleFailsUnregisters(i) ==
    /\ Built
    /\ result[i] = "none"
    /\ result' = [ result EXCEPT ![i] = "failed" ]
    /\ registered' = SubSeq(registered, 1, i - 1)
                       \o SubSeq(registered, i + 1, Len(registered))
    /\ UNCHANGED << pc, macros, aborted, reads >>

\* An example of the i-th page fails.
ExampleFails(i) ==
    /\ Built
    /\ result[i] = "none"
    /\ result' = [ result EXCEPT ![i] = "failed" ]
    /\ UNCHANGED << registered, pc, macros, aborted, reads >>

Next ==
    \/ ExternCrate
    \/ Doctest
    \/ DoctestMissing
    \/ \E i \in 1..Len(DoctestPaths(LibRs)) : ExamplesPass(i)
    \/ \E i \in 1..Len(DoctestPaths(LibRs)) : ExampleFails(i)

Spec == Init /\ [][Next]_vars

TypeOK ==
    /\ registered \in Seq(STRING)
    /\ pc \in 1..(Len(LibRs) + 1)
    /\ macros \in BOOLEAN
    /\ aborted \in BOOLEAN
    /\ \A p \in DOMAIN reads : reads[p] \in Nat
    /\ \A i \in DOMAIN result : result[i] \in Outcomes

(***************************************************************************)
(* The list of section 6 of the specification, and the repository's first  *)
(* variant as section 8 describes it relative to the second.               *)
(***************************************************************************)
SpecPaths ==
    { "./SUMMARY.md", "./what-is-celery.md", "./getting-started/index.md",
      "./quick-start.md", "./guide/index.md", "./guide/defining-tasks.md",
      "./best-practices/index.md", "./coming-from-python/index.md",
      "./additional-resources.md" }

AddedBySecond ==
    { "./quick-start.md", "./guide/index.md", "./guide/defining-tasks.md" }

DroppedBySecond == { "./getting-started/index.md" }

SecondVariant == Range(registered)

FirstVariant == (Range(registered) \ AddedBySecond) \cup DroppedBySecond

(***************************************************************************)
(* C1: the registered paths are exactly the nine paths of the              *)
(* specification's list without ./getting-started/index.md: the three      *)
(* pages of the second variant are among them, getting-started is not,     *)
(* and no path from outside the list is.                                   *)
(***************************************************************************)
C1_RegisteredIsSpecListMinusGettingStarted ==
    /\ Range(registered) = SpecPaths \ { "./getting-started/index.md" }
    /\ AddedBySecond \subseteq Range(registered)
    /\ "./getting-started/index.md" \notin Range(registered)
    /\ Range(registered) \subseteq SpecPaths

C1_Witness ==
    /\ Built
    /\ Cardinality(Range(registered)) = 8
    /\ reads["./quick-start.md"] = 1

(***************************************************************************)
(* C3 as stated: one of the two variants' filename sets contains the       *)
(* other.                                                                  *)
(***************************************************************************)
C3_VariantsSubsetOrSuperset ==
    \/ FirstVariant \subseteq SecondVariant
    \/ SecondVariant \subseteq FirstVariant

(***************************************************************************)
(* C3 amended: neither variant's filename set contains the other.  The     *)
(* second has exactly the three added pages beyond the first, the first    *)
(* has exactly ./getting-started/index.md beyond the second, and the       *)
(* other five pages are common to both.                                    *)
(***************************************************************************)
C3_VariantsOverlap ==
    /\ SecondVariant \ FirstVariant = AddedBySecond
    /\ FirstVariant \ SecondVariant = DroppedBySecond
    /\ Cardinality(FirstVariant \cap SecondVariant) = 5
    /\ ~(FirstVariant \subseteq SecondVariant)
    /\ ~(SecondVariant \subseteq FirstVariant)

C3_Witness ==
    /\ Built
    /\ Cardinality(FirstVariant) = 6
    /\ Cardinality(SecondVariant) = 8
    /\ reads["./guide/defining-tasks.md"] = 1

(***************************************************************************)
(* C4: every registered path is relative: it begins with "./", has no      *)
(* root and no ".." component, and names a file ending in ".md".           *)
(***************************************************************************)
C4_PathsRelativeMarkdown ==
    \A p \in Range(registered) :
        /\ StartsWith(p, "./")
        /\ ~HasRoot(p)
        /\ ~HasParentDir(p)
        /\ EndsWith(p, ".md")
        /\ Len(Components(p)[Len(Components(p))]) > Len(".md")

C4_Witness ==
    /\ Built
    /\ \E p \in Range(registered) : Len(Components(p)) = 3 /\ reads[p] = 1
    /\ \E p \in Range(registered) : Len(Components(p)) = 2 /\ reads[p] = 1

(***************************************************************************)
(* C5: the file holds only the macro import and doctest! invocations, and  *)
(* no step of a run (expanding an item, reading a page, examples passing   *)
(* or failing, the build stopping) changes the registered paths.           *)
(***************************************************************************)
C5_RegistrationStatic ==
    [][ /\ \A k \in 1..Len(LibRs) : LibRs[k].kind \in { "extern_crate", "doctest" }
        /\ LibRs[1].kind = "extern_crate"
        /\ registered' = registered
        /\ registered = DoctestPaths(LibRs) ]_vars

C5_Witness ==
    /\ Built
    /\ \E i \in DOMAIN result : result[i] = "failed"
    /\ \E i \in DOMAIN result : result[i] = "passed"
    /\ registered = DoctestPaths(LibRs)

(***************************************************************************)
(* C6: the eight invocations name eight pairwise distinct paths, so no     *)
(* page is read more than once, and in a run whose build completes every   *)
(* page has been read exactly once.                                        *)
(***************************************************************************)
C6_NoPathTwice ==
    /\ Len(registered) = 8
    /\ \A i, j \in 1..Len(registered) :
           i # j => registered[i] # registered[j]
    /\ \A p \in DOMAIN reads : reads[p] <= 1
    /\ Built => \A p \in Range(registered) : reads[p] = 1

C6_Witness ==
    /\ Built
    /\ \A p \in Range(registered) : reads[p] = 1
    /\ \A i \in DOMAIN result : result[i] # "none"

====
